---- MODULE Spec2Model ----
(***************************************************************************)
(* cloneheroer: the cache-validated scanning pipeline (Scanner.LoadSongs,  *)
(* calculateDirHash, scanDirectory, loadCache, saveCache,                  *)
(* convertCacheToSongs) and the song.ini parser (ParseSong,                *)
(* parseSongManually, readCharterDirectly, splitCharters).                 *)
(*                                                                         *)
(* A Go string is a sequence of units.  A unit is a one-character TLA+     *)
(* string for an ASCII byte, StrayByte for a byte that is not part of any  *)
(* valid UTF-8 encoding (a Latin-1 o-umlaut, 0xF6), or ReplacementRune for *)
(* the validly encoded rune U+FFFD.                                        *)
(***************************************************************************)
EXTENDS Integers, Sequences, FiniteSets, TLC

StrayByte == "xF6"
ReplacementRune == "uFFFD"

\* ------------------------------------------------------------------ strings

Min(S) == CHOOSE x \in S : \A y \in S : x <= y
Max(S) == CHOOSE x \in S : \A y \in S : x >= y

IsSpace(c) == c \in {" ", "\t", "\r", "\n"}

UpperToLower ==
    [c \in {"A", "B", "C", "D", "E", "F", "G", "H", "I", "J", "K", "L", "M",
            "N", "O", "P", "Q", "R", "S", "T", "U", "V", "W", "X", "Y", "Z"} |->
       CASE c = "A" -> "a" [] c = "B" -> "b" [] c = "C" -> "c" [] c = "D" -> "d"
         [] c = "E" -> "e" [] c = "F" -> "f" [] c = "G" -> "g" [] c = "H" -> "h"
         [] c = "I" -> "i" [] c = "J" -> "j" [] c = "K" -> "k" [] c = "L" -> "l"
         [] c = "M" -> "m" [] c = "N" -> "n" [] c = "O" -> "o" [] c = "P" -> "p"
         [] c = "Q" -> "q" [] c = "R" -> "r" [] c = "S" -> "s" [] c = "T" -> "t"
         [] c = "U" -> "u" [] c = "V" -> "v" [] c = "W" -> "w" [] c = "X" -> "x"
         [] c = "Y" -> "y" [] c = "Z" -> "z"]

\* strings.ToLower
ToLower(s) ==
    [i \in DOMAIN s |-> IF s[i] \in DOMAIN UpperToLower THEN UpperToLower[s[i]] ELSE s[i]]

\* strings.TrimSpace
TrimSpace(s) ==
    LET keep == {i \in 1..Len(s) : ~IsSpace(s[i])}
    IN  IF keep = {} THEN <<>> ELSE SubSeq(s, Min(keep), Max(keep))

\* strings.TrimRight(s, "\r\n")
TrimRightCRLF(s) ==
    LET keep == {i \in 1..Len(s) : s[i] \notin {"\r", "\n"}}
    IN  IF keep = {} THEN <<>> ELSE SubSeq(s, 1, Max(keep))

\* strings.HasPrefix
HasPrefix(s, p) == Len(s) >= Len(p) /\ SubSeq(s, 1, Len(p)) = p

\* strings.HasSuffix
HasSuffix(s, p) == Len(s) >= Len(p) /\ SubSeq(s, Len(s) - Len(p) + 1, Len(s)) = p

\* strings.Contains
Contains(s, sub) ==
    \E i \in 1..(Len(s) - Len(sub) + 1) : SubSeq(s, i, i + Len(sub) - 1) = sub

\* strings.Index for a one-unit needle drawn from the set cs (strings.IndexAny):
\* the 1-based position of the first match, 0 when there is none (Go: -1).
IndexAny(s, cs) ==
    LET hits == {i \in 1..Len(s) : s[i] \in cs}
    IN  IF hits = {} THEN 0 ELSE Min(hits)

Index(s, c) == IndexAny(s, {c})

LastIndex(s, c) ==
    LET hits == {i \in 1..Len(s) : s[i] = c}
    IN  IF hits = {} THEN 0 ELSE Max(hits)

\* strings.Fields: the maximal runs of non-space units
RECURSIVE Fields(_)
Fields(s) ==
    LET t == TrimSpace(s)
        sp == IndexAny(t, {" ", "\t", "\r", "\n"})
    IN  IF t = <<>> THEN <<>>
        ELSE IF sp = 0 THEN <<t>>
        ELSE <<SubSeq(t, 1, sp - 1)>> \o Fields(SubSeq(t, sp + 1, Len(t)))

DigitVal ==
    [c \in {"0", "1", "2", "3", "4", "5", "6", "7", "8", "9"} |->
       CASE c = "0" -> 0 [] c = "1" -> 1 [] c = "2" -> 2 [] c = "3" -> 3
         [] c = "4" -> 4 [] c = "5" -> 5 [] c = "6" -> 6 [] c = "7" -> 7
         [] c = "8" -> 8 [] c = "9" -> 9]

RECURSIVE NatVal(_)
NatVal(s) ==
    IF s = <<>> THEN 0 ELSE NatVal(SubSeq(s, 1, Len(s) - 1)) * 10 + DigitVal[s[Len(s)]]

\* strconv.Atoi / strconv.ParseInt(s, 10, 64): an optional sign and at least
\* one decimal digit, nothing else.  [ok, val]; val is 0 when ok is FALSE.
Atoi(s) ==
    LET signed == s # <<>> /\ s[1] \in {"+", "-"}
        digits == IF signed THEN SubSeq(s, 2, Len(s)) ELSE s
        ok     == digits # <<>> /\ \A i \in 1..Len(digits) : digits[i] \in DOMAIN DigitVal
    IN  IF ~ok THEN [ok |-> FALSE, val |-> 0]
        ELSE [ok |-> TRUE,
              val |-> IF signed /\ s[1] = "-" THEN 0 - NatVal(digits) ELSE NatVal(digits)]

\* ------------------------------------------------------------------ song.go

Millisecond == 1000000

\* The Instrument constants, and the diff_<instrument> key of each.
InstrumentIds ==
    { <<"g","u","i","t","a","r">>, <<"r","h","y","t","h","m">>, <<"b","a","s","s">>,
      <<"d","r","u","m","s">>, <<"k","e","y","s">>, <<"b","a","n","d">>,
      <<"g","u","i","t","a","r","g","h","l">>, <<"b","a","s","s","g","h","l">> }

DiffKey(inst) == <<"d","i","f","f","_">> \o inst

\* &Song{Path: path, Instruments: make(map[Instrument]int), Charters: []string{}}
NewSong(path) ==
    [Path |-> path, Name |-> <<>>, Artist |-> <<>>, Album |-> <<>>, Genre |-> <<>>,
     Year |-> 0, Charters |-> <<>>, Length |-> 0, Instruments |-> <<>>,
     PreviewStart |-> 0, Icon |-> <<>>, LoadingPhrase |-> <<>>,
     AlbumTrack |-> 0, PlaylistTrack |-> 0]

\* strings.Builder.WriteRune of a rune got by ranging over the string: a byte
\* that is no valid UTF-8 ranges as utf8.RuneError and is written as U+FFFD.
WriteRune(u) == IF u = StrayByte THEN ReplacementRune ELSE u

IsEntityStart(remaining) ==
    \/ HasPrefix(remaining, <<"&","a","m","p",";">>)
    \/ HasPrefix(remaining, <<"&","l","t",";">>)
    \/ HasPrefix(remaining, <<"&","g","t",";">>)
    \/ HasPrefix(remaining, <<"&","q","u","o","t",";">>)
    \/ HasPrefix(remaining, <<"&","#">>)

RECURSIVE splitLoop(_, _, _, _, _)
splitLoop(charterStr, i, inTag, current, result) ==
    IF i > Len(charterStr)
    THEN IF Len(current) > 0 THEN Append(result, current) ELSE result
    ELSE LET char == charterStr[i]
         IN  IF char = "<"
             THEN splitLoop(charterStr, i + 1, TRUE, Append(current, WriteRune(char)), result)
             ELSE IF char = ">"
             THEN splitLoop(charterStr, i + 1, FALSE, Append(current, WriteRune(char)), result)
             ELSE IF ~inTag /\ (char = "," \/ char = "&")
             THEN IF char = "&" /\ IsEntityStart(SubSeq(charterStr, i, Len(charterStr)))
                  THEN splitLoop(charterStr, i + 1, inTag,
                                 Append(current, WriteRune(char)), result)
                  ELSE IF Len(current) > 0
                  THEN splitLoop(charterStr, i + 1, inTag, <<>>, Append(result, current))
                  ELSE splitLoop(charterStr, i + 1, inTag, current, result)
             ELSE splitLoop(charterStr, i + 1, inTag, Append(current, WriteRune(char)), result)

\* splitCharters splits by comma or ampersand, but not inside HTML tags
splitCharters(charterStr) == splitLoop(charterStr, 1, FALSE, <<>>, <<>>)

\* The callers' loop: c = strings.TrimSpace(c); if c != "" { append }
RECURSIVE appendCharters(_, _)
appendCharters(charters, parts) ==
    IF parts = <<>> THEN charters
    ELSE LET c == TrimSpace(Head(parts))
         IN  appendCharters(IF c # <<>> THEN Append(charters, c) ELSE charters, Tail(parts))

\* A line "[...]" after trimming: the section header test of the three line
\* readers, and the lower-cased, space-trimmed name between the brackets.
IsHeader(trimmed) == HasPrefix(trimmed, <<"[">>) /\ HasSuffix(trimmed, <<"]">>)

RECURSIVE TrimBlanks(_)
TrimBlanks(s) ==
    IF s # <<>> /\ Head(s) = " " THEN TrimBlanks(Tail(s))
    ELSE IF s # <<>> /\ s[Len(s)] = " " THEN TrimBlanks(SubSeq(s, 1, Len(s) - 1))
    ELSE s

HeaderName(trimmed) == ToLower(TrimBlanks(SubSeq(trimmed, 2, Len(trimmed) - 1)))

SongName == <<"s","o","n","g">>

\* value := TrimSpace(line[idx+1:]); cut at the first ";" and trim again
CharterValue(line, idx) ==
    LET value == TrimSpace(SubSeq(line, idx + 1, Len(line)))
        commentIdx == Index(value, ";")
    IN  IF commentIdx > 0 THEN TrimSpace(SubSeq(value, 1, commentIdx - 1)) ELSE value

Charter == <<"c","h","a","r","t","e","r">>

RECURSIVE readCharterLoop(_, _, _)
readCharterLoop(lines, i, inSongSection) ==
    IF i > Len(lines) THEN <<>>
    ELSE LET line == lines[i]
             trimmed == TrimSpace(line)
             idx == Index(line, "=")
         IN  IF IsHeader(trimmed)
             THEN readCharterLoop(lines, i + 1, HeaderName(trimmed) = SongName)
             ELSE IF ~inSongSection THEN readCharterLoop(lines, i + 1, inSongSection)
             ELSE IF /\ Contains(ToLower(trimmed), Charter)
                     /\ idx > 0
                     /\ idx < Len(line)
             THEN TrimRightCRLF(CharterValue(line, idx))
             ELSE IF HasPrefix(trimmed, <<"[">>) THEN <<>>
             ELSE readCharterLoop(lines, i + 1, inSongSection)

\* readCharterDirectly: "" when the file cannot be read
readCharterDirectly(file) ==
    IF ~file.readable THEN <<>> ELSE readCharterLoop(file.lines, 1, FALSE)

\* getCharterValueManually: the fallback when readCharterDirectly gave "";
\* sectionCharter is section.Key("charter").String()
RECURSIVE manualCharterLoop(_, _, _, _)
manualCharterLoop(lines, i, inSongSection, sectionCharter) ==
    IF i > Len(lines) THEN sectionCharter
    ELSE LET line == lines[i]
             trimmed == TrimSpace(line)
             idx == Index(line, "=")
         IN  IF IsHeader(trimmed)
             THEN manualCharterLoop(lines, i + 1, HeaderName(trimmed) = SongName, sectionCharter)
             ELSE IF ~inSongSection
             THEN manualCharterLoop(lines, i + 1, inSongSection, sectionCharter)
             ELSE IF HasPrefix(ToLower(trimmed), Charter) /\ idx > 0 /\ idx < Len(line)
             THEN CharterValue(line, idx)
             ELSE IF HasPrefix(trimmed, <<"[">>) THEN sectionCharter
             ELSE manualCharterLoop(lines, i + 1, inSongSection, sectionCharter)

getCharterValueManually(sectionCharter, file) ==
    IF ~file.readable THEN sectionCharter
    ELSE manualCharterLoop(file.lines, 1, FALSE, sectionCharter)

\* ini.Load of gopkg.in/ini.v1 with its default options, as ParseSong uses
\* it: blank lines and lines starting with ";" or "#" are skipped, "[name]"
\* opens a section (names and keys are case-sensitive), any other line
\* needs a "=" or ":" delimiter, and a value ends at the first "#" or ";".
\* A file that cannot be read, an unclosed "[" or a line with no delimiter
\* is an error.  kvs lists the <<section, key, value>> triples in file order.
DefaultSection == <<"D","E","F","A","U","L","T">>

IniValue(raw) ==
    LET v == TrimSpace(raw)
        c == IndexAny(v, {"#", ";"})
    IN  IF c > 0 THEN TrimSpace(SubSeq(v, 1, c - 1)) ELSE v

RECURSIVE iniLoop(_, _, _, _)
iniLoop(lines, i, sec, kvs) ==
    IF i > Len(lines) THEN [err |-> FALSE, kvs |-> kvs]
    ELSE LET line == TrimSpace(lines[i])
             close == LastIndex(line, "]")
             delim == IndexAny(line, {"=", ":"})
         IN  IF line = <<>> \/ line[1] \in {";", "#"} THEN iniLoop(lines, i + 1, sec, kvs)
             ELSE IF line[1] = "["
             THEN IF close = 0 \/ close = 2 THEN [err |-> TRUE, kvs |-> <<>>]
                  ELSE iniLoop(lines, i + 1, TrimSpace(SubSeq(line, 2, close - 1)), kvs)
             ELSE IF delim = 0 THEN [err |-> TRUE, kvs |-> <<>>]
             ELSE iniLoop(lines, i + 1, sec,
                          Append(kvs, <<sec, TrimSpace(SubSeq(line, 1, delim - 1)),
                                        IniValue(SubSeq(line, delim + 1, Len(line)))>>))

iniLoad(file) ==
    IF ~file.readable THEN [err |-> TRUE, kvs |-> <<>>]
    ELSE iniLoop(file.lines, 1, DefaultSection, <<>>)

\* cfg.Section(name): the named section, created empty when the file has
\* none (ini.v1 never returns nil here).  keys lists its <<key, value>> pairs.
Section(cfg, name) ==
    [isNil |-> FALSE,
     keys  |-> LET idx == {i \in 1..Len(cfg.kvs) : cfg.kvs[i][1] = name}
                   RECURSIVE pick(_)
                   pick(i) == IF i > Len(cfg.kvs) THEN <<>>
                              ELSE (IF i \in idx THEN <<<<cfg.kvs[i][2], cfg.kvs[i][3]>>>>
                                    ELSE <<>>) \o pick(i + 1)
               IN  pick(1)]

\* section.Key(key).String(): the last value given to the key, "" when absent
KeyString(section, key) ==
    LET hits == {i \in 1..Len(section.keys) : section.keys[i][1] = key}
    IN  IF hits = {} THEN <<>> ELSE section.keys[Max(hits)][2]

\* getMalformedKey: a key whose name is "<keyName> <value>"
getMalformedKey(section, keyName) ==
    LET hits == {i \in 1..Len(section.keys) :
                    /\ HasPrefix(section.keys[i][1], Append(keyName, " "))
                    /\ Len(Fields(section.keys[i][1])) >= 2
                    /\ Fields(section.keys[i][1])[1] = keyName}
    IN  IF hits = {} THEN <<>> ELSE Fields(section.keys[Min(hits)][1])[2]

\* if s := ...; s != "" { if v, err := strconv.Atoi(s); err == nil { field = v } }
IntField(old, str) == IF str # <<>> /\ Atoi(str).ok THEN Atoi(str).val ELSE old

PreviewKey == <<"p","r","e","v","i","e","w","_","s","t","a","r","t","_","t","i","m","e">>

\* One "key = value" pair of parseSongManually's switch
manualField(song, key, value) ==
    LET k == ToLower(key)
        n == Atoi(value)
    IN  IF k = <<"n","a","m","e">> THEN [song EXCEPT !.Name = value]
        ELSE IF k = <<"a","r","t","i","s","t">> THEN [song EXCEPT !.Artist = value]
        ELSE IF k = <<"a","l","b","u","m">> THEN [song EXCEPT !.Album = value]
        ELSE IF k = <<"g","e","n","r","e">> THEN [song EXCEPT !.Genre = value]
        ELSE IF k = Charter
        THEN [song EXCEPT !.Charters = appendCharters(@, splitCharters(value))]
        ELSE IF k = <<"i","c","o","n">> THEN [song EXCEPT !.Icon = value]
        ELSE IF k = <<"l","o","a","d","i","n","g","_","p","h","r","a","s","e">>
        THEN [song EXCEPT !.LoadingPhrase = value]
        ELSE IF k = <<"y","e","a","r">>
        THEN [song EXCEPT !.Year = IF n.ok THEN n.val ELSE @]
        ELSE IF k = <<"s","o","n","g","_","l","e","n","g","t","h">>
        THEN [song EXCEPT !.Length = IF n.ok THEN n.val * Millisecond ELSE @]
        ELSE IF k = PreviewKey
        THEN [song EXCEPT !.PreviewStart = IF n.ok THEN n.val ELSE @]
        ELSE IF k = <<"a","l","b","u","m","_","t","r","a","c","k">>
        THEN [song EXCEPT !.AlbumTrack = IF n.ok THEN n.val ELSE @]
        ELSE IF k = <<"p","l","a","y","l","i","s","t","_","t","r","a","c","k">>
        THEN [song EXCEPT !.PlaylistTrack = IF n.ok THEN n.val ELSE @]
        ELSE IF \E inst \in InstrumentIds : k = DiffKey(inst)
        THEN LET inst == CHOOSE i \in InstrumentIds : k = DiffKey(i)
             IN  IF n.ok /\ n.val > 0
                 THEN [song EXCEPT !.Instruments =
                          [j \in DOMAIN @ \cup {inst} |-> IF j = inst THEN n.val ELSE @[j]]]
                 ELSE song
        ELSE song

RECURSIVE manualLoop(_, _, _, _)
manualLoop(lines, i, inSongSection, song) ==
    IF i > Len(lines) THEN song
    ELSE LET line == TrimSpace(lines[i])
             eq == Index(line, "=")
             parts == Fields(line)
         IN  IF line = <<>> \/ HasPrefix(line, <<";">>) \/ HasPrefix(line, <<"#">>)
             THEN manualLoop(lines, i + 1, inSongSection, song)
             ELSE IF IsHeader(line)
             THEN manualLoop(lines, i + 1, HeaderName(line) = SongName, song)
             ELSE IF ~inSongSection THEN manualLoop(lines, i + 1, inSongSection, song)
             ELSE IF HasPrefix(line, PreviewKey) /\ eq = 0
             THEN manualLoop(lines, i + 1, inSongSection,
                             IF Len(parts) >= 2 /\ Atoi(parts[2]).ok
                             THEN [song EXCEPT !.PreviewStart = Atoi(parts[2]).val]
                             ELSE song)
             ELSE IF eq = 0 THEN manualLoop(lines, i + 1, inSongSection, song)
             ELSE manualLoop(lines, i + 1, inSongSection,
                             manualField(song, TrimSpace(SubSeq(line, 1, eq - 1)),
                                         TrimSpace(SubSeq(line, eq + 1, Len(line)))))

\* parseSongManually handles files the ini library cannot parse.  The only
\* error is a failed os.ReadFile.
parseSongManually(path, file) ==
    IF ~file.readable THEN [ok |-> FALSE, song |-> NewSong(path)]
    ELSE [ok |-> TRUE, song |-> manualLoop(file.lines, 1, FALSE, NewSong(path))]

\* A strict pass that keeps every difficulty that parses, positive or not
strictSong_AnyDifficulty(path, file, section) ==
    LET direct     == readCharterDirectly(file)
        charterStr == IF direct = <<>>
                      THEN getCharterValueManually(KeyString(section, Charter), file)
                      ELSE direct
        preview1   == IntField(0, KeyString(section, PreviewKey))
        diff(inst) == Atoi(KeyString(section, DiffKey(inst)))
    IN  [NewSong(path) EXCEPT
           !.Name = KeyString(section, <<"n","a","m","e">>),
           !.Artist = KeyString(section, <<"a","r","t","i","s","t">>),
           !.Album = KeyString(section, <<"a","l","b","u","m">>),
           !.Genre = KeyString(section, <<"g","e","n","r","e">>),
           !.Charters = IF charterStr # <<>>
                        THEN appendCharters(<<>>, splitCharters(charterStr)) ELSE <<>>,
           !.Icon = KeyString(section, <<"i","c","o","n">>),
           !.LoadingPhrase =
               KeyString(section, <<"l","o","a","d","i","n","g","_","p","h","r","a","s","e">>),
           !.Year = IntField(0, KeyString(section, <<"y","e","a","r">>)),
           !.Length = IntField(0, KeyString(section,
                          <<"s","o","n","g","_","l","e","n","g","t","h">>)) * Millisecond,
           !.PreviewStart = IntField(preview1, getMalformedKey(section, PreviewKey)),
           !.AlbumTrack =
               IntField(0, KeyString(section, <<"a","l","b","u","m","_","t","r","a","c","k">>)),
           !.PlaylistTrack = IntField(0, KeyString(section,
                          <<"p","l","a","y","l","i","s","t","_","t","r","a","c","k">>)),
           !.Instruments =
               [inst \in {i \in InstrumentIds :
                            /\ KeyString(section, DiffKey(i)) # <<>>
                            /\ diff(i).ok} |-> diff(inst).val]]

\* The strict pass of ParseSong over the section it found
strictSong(path, file, section) ==
    LET direct     == readCharterDirectly(file)
        charterStr == IF direct = <<>>
                      THEN getCharterValueManually(KeyString(section, Charter), file)
                      ELSE direct
        preview1   == IntField(0, KeyString(section, PreviewKey))
        diff(inst) == Atoi(KeyString(section, DiffKey(inst)))
    IN  [NewSong(path) EXCEPT
           !.Name = KeyString(section, <<"n","a","m","e">>),
           !.Artist = KeyString(section, <<"a","r","t","i","s","t">>),
           !.Album = KeyString(section, <<"a","l","b","u","m">>),
           !.Genre = KeyString(section, <<"g","e","n","r","e">>),
           !.Charters = IF charterStr # <<>>
                        THEN appendCharters(<<>>, splitCharters(charterStr)) ELSE <<>>,
           !.Icon = KeyString(section, <<"i","c","o","n">>),
           !.LoadingPhrase =
               KeyString(section, <<"l","o","a","d","i","n","g","_","p","h","r","a","s","e">>),
           !.Year = IntField(0, KeyString(section, <<"y","e","a","r">>)),
           !.Length = IntField(0, KeyString(section,
                          <<"s","o","n","g","_","l","e","n","g","t","h">>)) * Millisecond,
           !.PreviewStart = IntField(preview1, getMalformedKey(section, PreviewKey)),
           !.AlbumTrack =
               IntField(0, KeyString(section, <<"a","l","b","u","m","_","t","r","a","c","k">>)),
           !.PlaylistTrack = IntField(0, KeyString(section,
                          <<"p","l","a","y","l","i","s","t","_","t","r","a","c","k">>)),
           !.Instruments =
               [inst \in {i \in InstrumentIds :
                            /\ KeyString(section, DiffKey(i)) # <<>>
                            /\ diff(i).ok
                            /\ diff(i).val > 0} |-> diff(inst).val]]

\* ParseSong parses a song.ini file: [ok, song]
ParseSong(path, file) ==
    LET cfg == iniLoad(file)
        lower == Section(cfg, SongName)
        section == IF lower.isNil THEN Section(cfg, <<"S","o","n","g">>) ELSE lower
    IN  IF cfg.err THEN parseSongManually(path, file)
        ELSE IF section.isNil THEN [ok |-> FALSE, song |-> NewSong(path)]
        ELSE [ok |-> TRUE, song |-> strictSong(path, file, section)]

\* ------------------------------------------------------------------ files
\* The metadata files the tree can hold.  A file is [readable, lines]: lines
\* is strings.Split(content, "\n"), so an empty file has one empty line.

\* A well-formed file
\*   [song]
\*   name = Song A
\*   artist = X
\*   charter = Al & Bo
\*   song_length = 185
\*   diff_drums = 3
\*   diff_bass = 0
DocA ==
    [readable |-> TRUE,
     lines |-> <<
        <<"[","s","o","n","g","]">>,
        <<"n","a","m","e"," ","="," ","S","o","n","g"," ","A">>,
        <<"a","r","t","i","s","t"," ","="," ","X">>,
        <<"c","h","a","r","t","e","r"," ","="," ","A","l"," ","&"," ","B","o">>,
        <<"s","o","n","g","_","l","e","n","g","t","h"," ","="," ","1","8","5">>,
        <<"d","i","f","f","_","d","r","u","m","s"," ","="," ","3">>,
        <<"d","i","f","f","_","b","a","s","s"," ","="," ","0">> >>]

\* A well-formed file in Latin-1: the name holds a byte that is no UTF-8
\*   [song]
\*   name = Mot<0xF6>r
\*   song_length = 95
DocB ==
    [readable |-> TRUE,
     lines |-> <<
        <<"[","s","o","n","g","]">>,
        <<"n","a","m","e"," ","="," ","M","o","t",StrayByte,"r">>,
        <<"s","o","n","g","_","l","e","n","g","t","h"," ","="," ","9","5">> >>]

\* An empty file
\*   
DocEmpty ==
    [readable |-> TRUE,
     lines |-> <<
        <<>> >>]

\* A syntactically invalid file: the section header is never closed
\*   [song
\*   name = Bad
DocBad ==
    [readable |-> TRUE,
     lines |-> <<
        <<"[","s","o","n","g">>,
        <<"n","a","m","e"," ","="," ","B","a","d">> >>]

\* A file with no [song] section
\*   [other]
\*   name = Z
DocNoSection ==
    [readable |-> TRUE,
     lines |-> <<
        <<"[","o","t","h","e","r","]">>,
        <<"n","a","m","e"," ","="," ","Z">> >>]

\* A file that exists and cannot be opened (permission denied)
DocUnreadable == [readable |-> FALSE, lines |-> << <<>> >>]

\* ------------------------------------------------------------------ the tree
\* The tree under rootDir: two subdirectories, each with one slot for a
\* metadata file.  tree.dirs[d] = [mtime, readable]; tree.files[s] =
\* [present, mtime, doc].  The root itself is readable and keeps its
\* modification time, since no entry is added to or removed from it.

\* Bounds of the model
MaxClock == 2
MaxCalls == 2

\* directory = "." is the default of the --directory flag
rootDir == <<".">>

DirA == <<"a">>
DirB == <<"b">>
Dirs == {DirA, DirB}

SlotA == [dir |-> DirA, name |-> <<"s","o","n","g",".","i","n","i">>]
SlotB == [dir |-> DirB, name |-> <<"S","o","n","g",".","i","n","i">>]
Slots == {SlotA, SlotB}

\* Other files a directory can hold, for the scan on its own
ScanSlots ==
    { [dir |-> DirA, name |-> <<"m","y","s","o","n","g",".","i","n","i">>],
      [dir |-> DirA, name |-> <<"s","o","n","g",".","i","n","i",".","b","a","k">>],
      [dir |-> DirB, name |-> <<"S","O","N","G",".","I","N","I">>],
      [dir |-> DirB, name |-> <<"s","o","n","g",".","t","x","t">>] }

Contents == {DocA, DocB, DocEmpty, DocBad, DocNoSection, DocUnreadable}

Absent == [present |-> FALSE, mtime |-> 0, doc |-> DocEmpty]

\* Byte order of the units names are made of (ASCII), for the lexical order
\* in which filepath.Walk visits the names of a directory.
Alphabet ==
    <<".", "/", "0", "1", "2", "3", "4", "5", "6", "7", "8", "9",
      "A", "B", "C", "D", "E", "F", "G", "H", "I", "J", "K", "L", "M",
      "N", "O", "P", "Q", "R", "S", "T", "U", "V", "W", "X", "Y", "Z", "_",
      "a", "b", "c", "d", "e", "f", "g", "h", "i", "j", "k", "l", "m",
      "n", "o", "p", "q", "r", "s", "t", "u", "v", "w", "x", "y", "z">>

Ord(c) == CHOOSE i \in 1..Len(Alphabet) : Alphabet[i] = c

RECURSIVE NameLess(_, _)
NameLess(x, y) ==
    IF x = <<>> THEN y # <<>>
    ELSE IF y = <<>> THEN FALSE
    ELSE IF Head(x) = Head(y) THEN NameLess(Tail(x), Tail(y))
    ELSE Ord(Head(x)) < Ord(Head(y))

\* readDirNames: the names of a set, sorted
RECURSIVE SortedNames(_)
SortedNames(names) ==
    IF names = {} THEN <<>>
    ELSE LET least == CHOOSE n \in names : \A m \in names \ {n} : NameLess(n, m)
         IN  <<least>> \o SortedNames(names \ {least})

\* filepath.Join(dir, name), which cleans a leading "./" away
JoinPath(dir, name) == IF dir = <<".">> THEN name ELSE dir \o <<"/">> \o name

\* filepath.Rel(root, path) for a path at or under root
Rel(root, path) ==
    IF path = root THEN <<".">>
    ELSE IF root = <<".">> THEN path
    ELSE SubSeq(path, Len(root) + 2, Len(path))

SlotPath(s) == JoinPath(JoinPath(rootDir, s.dir), s.name)

\* The calls filepath.Walk makes to its callback, in order, up to and
\* including the first one that carries an error (both callbacks of the
\* Scanner return that error, which stops the walk).  An event is
\* [path, isDir, mtime, err, slot].  A directory that cannot be read is
\* reported with err set.
FileEvents(t, d) ==
    LET here == {s \in DOMAIN t.files : s.dir = d /\ t.files[s].present}
        names == SortedNames({s.name : s \in here})
    IN  [i \in 1..Len(names) |->
           LET s == CHOOSE x \in here : x.name = names[i]
           IN  [path |-> SlotPath(s), isDir |-> FALSE, mtime |-> t.files[s].mtime,
                err |-> FALSE, slot |-> s]]

DirEvent(t, d) ==
    [path |-> JoinPath(rootDir, d), isDir |-> TRUE, mtime |-> t.dirs[d].mtime,
     err |-> ~t.dirs[d].readable, slot |-> SlotA]

RECURSIVE WalkDirs(_, _)
WalkDirs(t, ds) ==
    IF ds = <<>> THEN <<>>
    ELSE IF ~t.dirs[Head(ds)].readable THEN <<DirEvent(t, Head(ds))>>
    ELSE <<DirEvent(t, Head(ds))>> \o FileEvents(t, Head(ds)) \o WalkDirs(t, Tail(ds))

Walk(t) ==
    <<[path |-> rootDir, isDir |-> TRUE, mtime |-> 0, err |-> FALSE, slot |-> SlotA]>>
        \o WalkDirs(t, SortedNames(Dirs))

WalkFailed(events) == events[Len(events)].err

\* info.ModTime().String()
ModTimeString(mtime) == <<ToString(mtime)>>

\* calculateDirHash: [err, hash].  The digest is modelled as the bytes fed
\* to sha256 (the hash and its hex encoding taken as injective).
RECURSIVE hashWrites(_)
hashWrites(events) ==
    IF events = <<>> THEN <<>>
    ELSE Rel(rootDir, Head(events).path) \o ModTimeString(Head(events).mtime)
           \o hashWrites(Tail(events))

\* A fingerprint whose callback swallows the walk's error
calculateDirHash_IgnoresError(t) == [err |-> FALSE, hash |-> hashWrites(Walk(t))]

\* The digest of one walk: the walk's error, or the bytes written
hashWalk(events) ==
    IF WalkFailed(events) THEN [err |-> TRUE, hash |-> <<>>]
    ELSE [err |-> FALSE, hash |-> hashWrites(events)]

calculateDirHash(t) == hashWalk(Walk(t))

\* ParseSong on each file the tree can hold at each slot, worked out once
ParseSongAt == [s \in Slots \cup ScanSlots |-> [d \in Contents |-> ParseSong(SlotPath(s), d)]]

\* strings.HasSuffix(strings.ToLower(path), "song.ini")
IsSongIni(path) == HasSuffix(ToLower(path), <<"s","o","n","g",".","i","n","i">>)

\* scanDirectory: [songs, err, warnings, parsed].  warnings are the paths of
\* the "Warning: failed to parse" lines, parsed the paths given to ParseSong.
RECURSIVE scanLoop(_, _, _)
scanLoop(t, events, acc) ==
    IF events = <<>> THEN acc
    ELSE LET e == Head(events)
             r == ParseSongAt[e.slot][t.files[e.slot].doc]
         IN  IF e.err THEN [acc EXCEPT !.err = TRUE]
             ELSE IF e.isDir THEN scanLoop(t, Tail(events), acc)
             ELSE IF IsSongIni(e.path)
             THEN IF ~r.ok
                  THEN scanLoop(t, Tail(events),
                                [acc EXCEPT !.warnings = Append(@, e.path),
                                            !.parsed = Append(@, e.path)])
                  ELSE scanLoop(t, Tail(events),
                                [acc EXCEPT !.songs = Append(@, r.song),
                                            !.parsed = Append(@, e.path)])
             ELSE scanLoop(t, Tail(events), acc)

\* A scan that gives up at the first file ParseSong rejects
RECURSIVE scanLoop_StopAtParseError(_, _, _)
scanLoop_StopAtParseError(t, events, acc) ==
    IF events = <<>> THEN acc
    ELSE LET e == Head(events)
             r == ParseSongAt[e.slot][t.files[e.slot].doc]
         IN  IF e.err THEN [acc EXCEPT !.err = TRUE]
             ELSE IF e.isDir \/ ~IsSongIni(e.path)
             THEN scanLoop_StopAtParseError(t, Tail(events), acc)
             ELSE IF ~r.ok
             THEN [acc EXCEPT !.err = TRUE, !.warnings = Append(@, e.path),
                              !.parsed = Append(@, e.path)]
             ELSE scanLoop_StopAtParseError(t, Tail(events),
                      [acc EXCEPT !.songs = Append(@, r.song), !.parsed = Append(@, e.path)])

scanDirectory_StopAtParseError(t) ==
    scanLoop_StopAtParseError(t, Walk(t),
        [songs |-> <<>>, err |-> FALSE, warnings |-> <<>>, parsed |-> <<>>])

\* A scan that returns what it has and no error when the walk fails
scanDirectory_SwallowsWalkError(t) ==
    [scanLoop(t, Walk(t), [songs |-> <<>>, err |-> FALSE, warnings |-> <<>>,
                           parsed |-> <<>>]) EXCEPT !.err = FALSE]

scanDirectory(t) ==
    scanLoop(t, Walk(t), [songs |-> <<>>, err |-> FALSE, warnings |-> <<>>, parsed |-> <<>>])

\* ------------------------------------------------------------------ the cache
\* encoding/json on a Go string: the encoder coerces it to valid UTF-8,
\* writing U+FFFD for every byte that is part of no valid encoding; the
\* decoder gives back what was written.
JsonString(s) == [i \in DOMAIN s |-> IF s[i] = StrayByte THEN ReplacementRune ELSE s[i]]

JsonStrings(ss) == [i \in DOMAIN ss |-> JsonString(ss[i])]

\* Go's integer division truncates toward zero
GoDiv(a, b) == IF a >= 0 THEN a \div b ELSE 0 - ((0 - a) \div b)

\* The CacheEntry saveCache builds for a song.  Charter, the legacy field,
\* is left at its zero value.
EntryOf(song) ==
    [Path |-> song.Path, Name |-> song.Name, Artist |-> song.Artist,
     Album |-> song.Album, Genre |-> song.Genre, Year |-> song.Year,
     Charters |-> song.Charters, Charter |-> <<>>,
     Length |-> GoDiv(song.Length, Millisecond),
     Instruments |-> song.Instruments,
     PreviewStart |-> song.PreviewStart, Icon |-> song.Icon,
     LoadingPhrase |-> song.LoadingPhrase, AlbumTrack |-> song.AlbumTrack,
     PlaylistTrack |-> song.PlaylistTrack]

\* encoder.Encode(cache) followed by decoder.Decode: what a Cache value is
\* after a trip through the JSON file.  Every string is coerced; an empty
\* Charters list or Charter string is omitted and decodes as empty.
JsonEntry(e) ==
    [e EXCEPT !.Path = JsonString(@), !.Name = JsonString(@), !.Artist = JsonString(@),
              !.Album = JsonString(@), !.Genre = JsonString(@),
              !.Charters = JsonStrings(@), !.Charter = JsonString(@),
              !.Icon = JsonString(@), !.LoadingPhrase = JsonString(@)]

JsonCache(cache) ==
    [Hash |-> cache.Hash,    \* a hex digest: ASCII, written as it is
     Songs |-> [i \in DOMAIN cache.Songs |-> JsonEntry(cache.Songs[i])]]

\* The cache file: state is "missing" (no such file), "unreadable" (it
\* exists and cannot be opened), "corrupt" (it opens and does not decode)
\* or "ok", and then doc is the Cache it decodes to.
NoCache == [Hash |-> <<>>, Songs |-> <<>>]
CacheMissing == [state |-> "missing", doc |-> NoCache]
CacheUnreadable == [state |-> "unreadable", doc |-> NoCache]
CacheCorrupt == [state |-> "corrupt", doc |-> NoCache]

\* loadCache: [err, cache]
loadCache(file) ==
    IF file.state = "ok" THEN [err |-> FALSE, cache |-> file.doc]
    ELSE [err |-> TRUE, cache |-> NoCache]

\* The outcomes saveCache can have on a cache file: "ok", "create" (os.Create
\* fails and the file is left as it was) or "write" (Encode fails after
\* os.Create has truncated the file).  A file that cannot be opened for
\* reading cannot be opened O_RDWR either.
SaveOutcomes(file) ==
    IF file.state = "unreadable" THEN {"create"} ELSE {"ok", "create", "write"}

\* A save that stores the catalog and leaves the Hash empty
saveCache_NoHash(file, hash, songs, outcome) ==
    LET cache == [Hash |-> <<>>, Songs |-> [i \in DOMAIN songs |-> EntryOf(songs[i])]]
    IN  IF outcome = "create" THEN [err |-> TRUE, file |-> file]
        ELSE IF outcome = "write" THEN [err |-> TRUE, file |-> CacheCorrupt]
        ELSE [err |-> FALSE, file |-> [state |-> "ok", doc |-> JsonCache(cache)]]

\* saveCache: [err, file], the file being the cache file afterwards
saveCache(file, hash, songs, outcome) ==
    LET cache == [Hash |-> hash, Songs |-> [i \in DOMAIN songs |-> EntryOf(songs[i])]]
    IN  IF outcome = "create" THEN [err |-> TRUE, file |-> file]
        ELSE IF outcome = "write" THEN [err |-> TRUE, file |-> CacheCorrupt]
        ELSE [err |-> FALSE, file |-> [state |-> "ok", doc |-> JsonCache(cache)]]

\* A conversion that knows nothing of the legacy Charter field
SongOf_NoLegacy(entry) ==
    [Path |-> entry.Path, Name |-> entry.Name, Artist |-> entry.Artist,
     Album |-> entry.Album, Genre |-> entry.Genre, Year |-> entry.Year,
     Charters |-> entry.Charters,
     Length |-> entry.Length * Millisecond,
     Instruments |-> entry.Instruments,
     PreviewStart |-> entry.PreviewStart, Icon |-> entry.Icon,
     LoadingPhrase |-> entry.LoadingPhrase, AlbumTrack |-> entry.AlbumTrack,
     PlaylistTrack |-> entry.PlaylistTrack]

\* One entry of convertCacheToSongs
SongOf(entry) ==
    [Path |-> entry.Path, Name |-> entry.Name, Artist |-> entry.Artist,
     Album |-> entry.Album, Genre |-> entry.Genre, Year |-> entry.Year,
     Charters |-> IF Len(entry.Charters) = 0 /\ entry.Charter # <<>>
                  THEN <<entry.Charter>> ELSE entry.Charters,
     Length |-> entry.Length * Millisecond,
     Instruments |-> entry.Instruments,
     PreviewStart |-> entry.PreviewStart, Icon |-> entry.Icon,
     LoadingPhrase |-> entry.LoadingPhrase, AlbumTrack |-> entry.AlbumTrack,
     PlaylistTrack |-> entry.PlaylistTrack]

convertCacheToSongs(cache) == [i \in DOMAIN cache.Songs |-> SongOf(cache.Songs[i])]

\* A fast path that takes a cache it could not load for a hit
CacheHit_OnLoadError(loaded, hash) == loaded.err \/ loaded.cache.Hash = hash

\* A fast path that trusts any cache that decodes
CacheHit_AnyHash(loaded, hash) == ~loaded.err

\* The test of LoadSongs' fast path: err == nil && cached.Hash == currentHash
CacheHit(loaded, hash) == ~loaded.err /\ loaded.cache.Hash = hash

\* ------------------------------------------------------------------ LoadSongs
VARIABLES
    tree,         \* the directory tree under rootDir
    clock,        \* filesystem time: the number of changes made so far
    cacheFile,    \* the file s.cacheFile
    pc,           \* where LoadSongs stands: "idle", "hashed", "miss", "scanned", "done"
    currentHash,  \* LoadSongs' currentHash
    songs,        \* LoadSongs' songs, err: what scanDirectory returned
    ret,          \* what LoadSongs returned: [songs, err], err "nil", "hash" or "walk"
    stderr,       \* the warnings of the running call: <<kind, path>> pairs
    obs,          \* what the running call did (history, read by the properties only)
    prev,         \* the call that returned before it (history)
    calls,        \* the number of calls that have returned
    applied,      \* the function a unit specification has applied, "" before
    input,        \* the argument it was applied to
    output        \* what it returned

vars == <<tree, clock, cacheFile, pc, currentHash, songs, ret, stderr, obs, prev, calls,
          applied, input, output>>

\* The state of LoadSongs and of the world it runs in
scannerVars == <<tree, clock, cacheFile, pc, currentHash, songs, ret, stderr, obs, prev, calls>>

\* The state of a unit specification
unitVars == <<applied, input, output>>

NoScan == [songs |-> <<>>, err |-> FALSE, warnings |-> <<>>, parsed |-> <<>>]
NoRet == [songs |-> <<>>, err |-> "nil"]

\* obs: via is "" until the call leaves by "cache", "scan" or "error";
\* loaded is what loadCache returned, if the call called it (cacheReads);
\* scans counts the scanDirectory calls and cacheWrites the saveCache calls,
\* save is the outcome of the save and written the cache file it left;
\* treeAtHash, treeAtLoad and treeAtScan are the trees as they were at the
\* fingerprint, at the cache load and at the scan; startClock and
\* cacheAtStart are the clock and the cache file when the call began.
NoObs(t, c, f) ==
    [via |-> "", loaded |-> [err |-> TRUE, cache |-> NoCache], cacheReads |-> 0,
     scans |-> 0, cacheWrites |-> 0, save |-> "", written |-> f,
     treeAtHash |-> t, treeAtLoad |-> t, treeAtScan |-> t,
     startClock |-> c, cacheAtStart |-> f]

NoPrev == [returned |-> FALSE, ret |-> NoRet, via |-> "", save |-> "", startClock |-> 0,
           cacheFile |-> CacheMissing]

\* The trees a run can start from: a/song.ini is one of the two well-formed
\* files; b/Song.ini is absent, empty or unreadable.
InitFiles ==
    { [s \in Slots |-> IF s = SlotA THEN [present |-> TRUE, mtime |-> 0, doc |-> a] ELSE b] :
        a \in {DocA, DocB},
        b \in {Absent} \cup {[present |-> TRUE, mtime |-> 0, doc |-> d] :
                                d \in {DocEmpty, DocUnreadable}} }

Init ==
    /\ tree \in { [dirs |-> [d \in Dirs |-> [mtime |-> 0, readable |-> TRUE]], files |-> f] :
                    f \in InitFiles }
    /\ clock = 0
    /\ cacheFile = CacheMissing
    /\ pc = "idle"
    /\ currentHash = <<>>
    /\ songs = NoScan
    /\ ret = NoRet
    /\ stderr = <<>>
    /\ obs = NoObs(tree, 0, CacheMissing)
    /\ prev = NoPrev
    /\ calls = 0
    /\ applied = ""
    /\ input = <<>>
    /\ output = <<>>

\* LoadSongs, lines 60-64: currentHash, err := s.calculateDirHash()
CalcHash ==
    /\ pc = "idle"
    /\ calls < MaxCalls
    /\ LET h == calculateDirHash(tree)
       IN  /\ currentHash' = h.hash
           /\ obs' = [NoObs(tree, clock, cacheFile) EXCEPT
                         !.via = IF h.err THEN "error" ELSE ""]
           /\ ret' = IF h.err THEN [songs |-> <<>>, err |-> "hash"] ELSE NoRet
           /\ pc' = IF h.err THEN "done" ELSE "hashed"
    /\ songs' = NoScan
    /\ stderr' = <<>>
    /\ UNCHANGED <<tree, clock, cacheFile, prev, calls, unitVars>>

\* LoadSongs, lines 66-69: the cache is read and, on a hit, answers the call
LoadCache ==
    /\ pc = "hashed"
    /\ LET loaded == loadCache(cacheFile)
           hit == CacheHit(loaded, currentHash)
       IN  /\ obs' = [obs EXCEPT !.loaded = loaded, !.cacheReads = @ + 1, !.treeAtLoad = tree,
                                 !.via = IF hit THEN "cache" ELSE ""]
           /\ ret' = IF hit THEN [songs |-> convertCacheToSongs(loaded.cache), err |-> "nil"]
                     ELSE ret
           /\ pc' = IF hit THEN "done" ELSE "miss"
    /\ UNCHANGED <<tree, clock, cacheFile, currentHash, songs, stderr, prev, calls, unitVars>>

\* LoadSongs, lines 71-75: songs, err := s.scanDirectory()
Scan ==
    /\ pc = "miss"
    /\ LET r == scanDirectory(tree)
       IN  /\ songs' = r
           /\ stderr' = stderr \o [i \in DOMAIN r.warnings |-> <<"parse", r.warnings[i]>>]
           /\ obs' = [obs EXCEPT !.treeAtScan = tree, !.scans = @ + 1,
                                 !.via = IF r.err THEN "error" ELSE ""]
           /\ ret' = IF r.err THEN [songs |-> <<>>, err |-> "walk"] ELSE ret
           /\ pc' = IF r.err THEN "done" ELSE "scanned"
    /\ UNCHANGED <<tree, clock, cacheFile, currentHash, prev, calls, unitVars>>

\* A LoadSongs that propagates the save's error
SaveReturn_FailsOnSaveError(scanned, saved) ==
    IF saved.err THEN [songs |-> <<>>, err |-> "save"]
    ELSE [songs |-> scanned.songs, err |-> "nil"]

\* What LoadSongs returns after the save: songs, nil, whatever the save did
SaveReturn(scanned, saved) == [songs |-> scanned.songs, err |-> "nil"]

\* LoadSongs, lines 77-83: the save, its warning, and return songs, nil
SaveCache ==
    /\ pc = "scanned"
    /\ \E outcome \in SaveOutcomes(cacheFile) :
         LET saved == saveCache(cacheFile, currentHash, songs.songs, outcome)
         IN  /\ cacheFile' = saved.file
             /\ stderr' = IF saved.err THEN Append(stderr, <<"save", <<>>>>) ELSE stderr
             /\ obs' = [obs EXCEPT !.cacheWrites = @ + 1, !.save = outcome,
                                   !.written = saved.file, !.via = "scan"]
             /\ ret' = SaveReturn(songs, saved)
    /\ pc' = "done"
    /\ UNCHANGED <<tree, clock, currentHash, songs, prev, calls, unitVars>>

\* The caller has the result; the next run of the program can start
Return ==
    /\ pc = "done"
    /\ prev' = [returned |-> TRUE, ret |-> ret, via |-> obs.via, save |-> obs.save,
                startClock |-> obs.startClock, cacheFile |-> cacheFile]
    /\ calls' = calls + 1
    /\ pc' = "idle"
    /\ UNCHANGED <<tree, clock, cacheFile, currentHash, songs, ret, stderr, obs, unitVars>>

\* ------------------------------------------------------------------ the world
\* Other programs change the tree and the cache file between the steps of
\* LoadSongs.  A change that creates, removes or renames an entry gives the
\* directory holding it a fresh modification time, a write gives one to the
\* file; chmod changes no modification time.

Touch(t, d, now) == [t EXCEPT !.dirs[d].mtime = now]

AddFile ==
    /\ clock < MaxClock
    /\ \E s \in Slots, d \in Contents :
         /\ ~tree.files[s].present
         /\ tree' = [Touch(tree, s.dir, clock + 1) EXCEPT
                        !.files[s] = [present |-> TRUE, mtime |-> clock + 1, doc |-> d]]
    /\ clock' = clock + 1
    /\ UNCHANGED <<cacheFile, pc, currentHash, songs, ret, stderr, obs, prev, calls, unitVars>>

RemoveFile ==
    /\ clock < MaxClock
    /\ \E s \in Slots :
         /\ tree.files[s].present
         /\ tree' = [Touch(tree, s.dir, clock + 1) EXCEPT !.files[s] = Absent]
    /\ clock' = clock + 1
    /\ UNCHANGED <<cacheFile, pc, currentHash, songs, ret, stderr, obs, prev, calls, unitVars>>

\* A write to the file (d its new content), or a touch (d its old one)
ModifyFile ==
    /\ clock < MaxClock
    /\ \E s \in Slots, d \in Contents :
         /\ tree.files[s].present
         /\ tree' = [tree EXCEPT !.files[s] = [present |-> TRUE, mtime |-> clock + 1, doc |-> d]]
    /\ clock' = clock + 1
    /\ UNCHANGED <<cacheFile, pc, currentHash, songs, ret, stderr, obs, prev, calls, unitVars>>

\* mv: the file keeps its content and its modification time
RenameFile ==
    /\ clock < MaxClock
    /\ \E s \in Slots, t \in Slots :
         /\ tree.files[s].present
         /\ ~tree.files[t].present
         /\ tree' = [Touch(Touch(tree, s.dir, clock + 1), t.dir, clock + 1) EXCEPT
                        !.files[s] = Absent, !.files[t] = tree.files[s]]
    /\ clock' = clock + 1
    /\ UNCHANGED <<cacheFile, pc, currentHash, songs, ret, stderr, obs, prev, calls, unitVars>>

\* chmod of a subdirectory: it becomes unreadable, or readable again
ChmodDir ==
    /\ clock < MaxClock
    /\ \E d \in Dirs : tree' = [tree EXCEPT !.dirs[d].readable = ~@]
    /\ clock' = clock + 1
    /\ UNCHANGED <<cacheFile, pc, currentHash, songs, ret, stderr, obs, prev, calls, unitVars>>

\* The cache file is deleted, made unreadable or truncated
DamageCache ==
    /\ clock < MaxClock
    /\ \E f \in {CacheMissing, CacheUnreadable, CacheCorrupt} :
         /\ f # cacheFile
         /\ f.state = "missing" \/ cacheFile.state # "missing"
         /\ cacheFile' = f
    /\ clock' = clock + 1
    /\ UNCHANGED <<tree, pc, currentHash, songs, ret, stderr, obs, prev, calls, unitVars>>

\* ------------------------------------------------------------------ unit specifications
\* Each of the specifications below applies one function of the program to
\* an argument drawn from a bounded set, LoadSongs staying where Init put it.

UnitInit ==
    /\ tree = [dirs |-> [d \in Dirs |-> [mtime |-> 0, readable |-> TRUE]],
               files |-> [s \in Slots |-> Absent]]
    /\ clock = 0
    /\ cacheFile = CacheMissing
    /\ pc = "idle"
    /\ currentHash = <<>>
    /\ songs = NoScan
    /\ ret = NoRet
    /\ stderr = <<>>
    /\ obs = NoObs(tree, 0, CacheMissing)
    /\ prev = NoPrev
    /\ calls = 0
    /\ applied = ""
    /\ output = <<>>

\* ---- calculateDirHash on two roots that hold plain files
\* The names a root can hold; the third is the first, a modification time
\* as ModTimeString writes it, and the second.
HashNames == { <<"x">>, <<"y">>, <<"x","1","y">> }

\* Bound: the modification times of the entries are 0..MaxStamp
MaxStamp == 2

\* A root: the modification time of the directory and, for every name, 0
\* when no such file exists or 1 + the modification time of the file
HashRoots == [mtime : 0..1, files : [HashNames -> 0..(MaxStamp + 1)]]

\* The entries of a root: its <<relative path, modification time>> pairs
Entries(r) ==
    {<<(<<".">>), r.mtime>>} \cup {<<n, r.files[n] - 1>> : n \in {m \in HashNames : r.files[m] > 0}}

\* filepath.Walk on such a root: the root, then its files in lexical order
WalkRoot(r) ==
    LET names == SortedNames({n \in HashNames : r.files[n] > 0})
    IN  <<[path |-> rootDir, isDir |-> TRUE, mtime |-> r.mtime, err |-> FALSE, slot |-> SlotA]>>
          \o [i \in 1..Len(names) |->
                 [path |-> JoinPath(rootDir, names[i]), isDir |-> FALSE,
                  mtime |-> r.files[names[i]] - 1, err |-> FALSE, slot |-> SlotA]]

HashInit == UnitInit /\ input \in HashRoots \X HashRoots

HashRoot ==
    /\ applied = ""
    /\ applied' = "calculateDirHash"
    /\ output' = <<hashWalk(WalkRoot(input[1])), hashWalk(WalkRoot(input[2]))>>
    /\ UNCHANGED <<input, scannerVars>>

HashNext == HashRoot

SpecHash == HashInit /\ [][HashNext]_vars

\* ---- the cache functions on caches an older version may have written
\* Bound: a cache holds up to MaxEntries songs
MaxEntries == 2

LegacyCharters ==
    { <<>>, << <<"A","l">> >>, << <<"A","l">>, <<"B","o">> >> }

LegacyCharter == { <<>>, <<"O","l","d">>, <<"A","l">> }

\* The entries a cache file can hold: Charters is the list field, Charter
\* the field an older version wrote
LegacyEntries ==
    { [EntryOf(NewSong(SlotPath(SlotA))) EXCEPT !.Charters = cs, !.Charter = c] :
        cs \in LegacyCharters, c \in LegacyCharter }

LegacyCaches ==
    { [Hash |-> <<"h">>, Songs |-> es] :
        es \in UNION { [1..n -> LegacyEntries] : n \in 0..MaxEntries } }

\* The catalogs saveCache is given
LegacySongs ==
    { [NewSong(SlotPath(SlotA)) EXCEPT !.Charters = cs] : cs \in LegacyCharters }

LegacyCatalogs == UNION { [1..n -> LegacySongs] : n \in 0..MaxEntries }

\* The keys encoder.Encode writes for an entry: every field, the two tagged
\* omitempty ("charters", "charter") only when they are not empty
JsonKeys(e) ==
    { "Path", "Name", "Artist", "Album", "Genre", "Year", "Length", "Instruments",
      "PreviewStart", "Icon", "LoadingPhrase", "AlbumTrack", "PlaylistTrack" }
      \cup (IF Len(e.Charters) > 0 THEN {"charters"} ELSE {})
      \cup (IF e.Charter # <<>> THEN {"charter"} ELSE {})

LegacyInit ==
    /\ UnitInit
    /\ input \in [fn : {"convertCacheToSongs"}, arg : LegacyCaches]
                    \cup [fn : {"saveCache"}, arg : LegacyCatalogs]

\* loadCache of a file holding the cache, then convertCacheToSongs
ConvertCache ==
    /\ applied = ""
    /\ input.fn = "convertCacheToSongs"
    /\ applied' = input.fn
    /\ output' = convertCacheToSongs(loadCache([state |-> "ok", doc |-> input.arg]).cache)
    /\ UNCHANGED <<input, scannerVars>>

\* saveCache of a catalog: the entries it builds and the file it leaves
SaveCatalog ==
    /\ applied = ""
    /\ input.fn = "saveCache"
    /\ applied' = input.fn
    /\ output' = [entries |-> [i \in DOMAIN input.arg |-> EntryOf(input.arg[i])],
                  file |-> saveCache(CacheMissing, <<"h">>, input.arg, "ok").file]
    /\ UNCHANGED <<input, scannerVars>>

LegacyNext ==
    \/ ConvertCache
    \/ SaveCatalog

SpecLegacy == LegacyInit /\ [][LegacyNext]_vars

\* ---- ParseSong on files that give difficulties
\* What a file can give as the value of a diff_<instrument> key, with
\* the number it stands for in decimal (ok FALSE when it is no number)
DiffTexts ==
    { [text |-> <<"3">>, ok |-> TRUE, val |-> 3],
      [text |-> <<"0">>, ok |-> TRUE, val |-> 0],
      [text |-> <<"-","1">>, ok |-> TRUE, val |-> 0 - 1],
      [text |-> <<"1","2">>, ok |-> TRUE, val |-> 12],
      [text |-> <<"+","2">>, ok |-> TRUE, val |-> 2],
      [text |-> <<"0","6">>, ok |-> TRUE, val |-> 6],
      [text |-> <<"x">>, ok |-> FALSE, val |-> 0],
      [text |-> <<"3","x">>, ok |-> FALSE, val |-> 0],
      [text |-> <<>>, ok |-> FALSE, val |-> 0] }

Drums == <<"d","r","u","m","s">>
Bass == <<"b","a","s","s">>

\* A [song] file with a diff_drums and a diff_bass line.  With stray set it
\* also holds a line that is no "key = value", which ini.Load rejects, so
\* that parseSongManually reads the file.
DiffFile(stray, drums, bass) ==
    [readable |-> TRUE,
     lines |-> << <<"[","s","o","n","g","]">> >>
               \o (IF stray THEN << <<"o","o","p","s">> >> ELSE <<>>)
               \o << DiffKey(Drums) \o <<" ","="," ">> \o drums.text,
                     DiffKey(Bass) \o <<" ","="," ">> \o bass.text >>]

DiffInit ==
    /\ UnitInit
    /\ input \in [fn : {"ParseSong"}, stray : BOOLEAN, drums : DiffTexts, bass : DiffTexts]

\* ParseSong of the file, and the record a cache written from it gives back
ParseDiff ==
    /\ applied = ""
    /\ applied' = input.fn
    /\ LET r == ParseSong(SlotPath(SlotA), DiffFile(input.stray, input.drums, input.bass))
           saved == saveCache(CacheMissing, <<"h">>, <<r.song>>, "ok")
       IN  output' = [parse |-> r,
                      cached |-> convertCacheToSongs(loadCache(saved.file).cache)]
    /\ UNCHANGED <<input, scannerVars>>

DiffNext == ParseDiff

SpecDiff == DiffInit /\ [][DiffNext]_vars

\* ---- splitCharters on charter strings
\* Bound: the charter strings are all the strings of up to MaxCharter units
MaxCharter == 4

CharterUnits == {"A", " ", ",", "&", "<", ">", "#"}

\* The two examples of the documentation
AliceAndBob == <<"A","l","i","c","e"," ","&"," ","B","o","b">>
TomAndJerry ==
    <<"T","o","m"," ","&"," ","J","e","r","r","y"," ","&","a","m","p",";"," ","C","o">>

CharterStrings ==
    UNION { [1..n -> CharterUnits] : n \in 0..MaxCharter } \cup {AliceAndBob, TomAndJerry}

SplitInit == UnitInit /\ input \in [fn : {"splitCharters"}, arg : CharterStrings]

\* charters := splitCharters(charterStr), then the caller's loop over them
SplitCharter ==
    /\ applied = ""
    /\ applied' = input.fn
    /\ output' = appendCharters(<<>>, splitCharters(input.arg))
    /\ UNCHANGED <<input, scannerVars>>

SplitNext == SplitCharter

SpecSplit == SplitInit /\ [][SplitNext]_vars

\* ---- ParseSong on files whose section header is "song" in any letter case
\* The spellings of the section name: each letter in either case
SongSpellings ==
    { <<a, b, c, d>> : a \in {"s", "S"}, b \in {"o", "O"}, c \in {"n", "N"}, d \in {"g", "G"} }

\* A file with the section header [spelling] and one line for each kind of
\* field.  With stray set it also holds a line that is no "key = value",
\* which ini.Load rejects, so that parseSongManually reads the file.
SectionFile(spelling, stray, name) ==
    [readable |-> TRUE,
     lines |-> << <<"[">> \o spelling \o <<"]">> >>
               \o (IF stray THEN << <<"o","o","p","s">> >> ELSE <<>>)
               \o << <<"n","a","m","e"," ","="," ">> \o name,
                     <<"a","r","t","i","s","t"," ","="," ","X">>,
                     <<"y","e","a","r"," ","="," ","1","9","9","9">>,
                     <<"s","o","n","g","_","l","e","n","g","t","h"," ","="," ","9","5">>,
                     <<"d","i","f","f","_","d","r","u","m","s"," ","="," ","3">> >>]

SectionInit ==
    /\ UnitInit
    /\ input \in [fn : {"ParseSong"}, spelling : SongSpellings, stray : BOOLEAN,
                  name : { <<"A">>, <<"B","e">> }]

\* ParseSong of the file as spelled, and of the same file under [song]
ParseSpelling ==
    /\ applied = ""
    /\ applied' = input.fn
    /\ output' = [given |-> ParseSong(SlotPath(SlotA),
                                      SectionFile(input.spelling, input.stray, input.name)),
                  lower |-> ParseSong(SlotPath(SlotA),
                                      SectionFile(SongName, input.stray, input.name))]
    /\ UNCHANGED <<input, scannerVars>>

SectionNext == ParseSpelling

SpecSection == SectionInit /\ [][SectionNext]_vars

\* ---- scanDirectory on trees that hold other files too
\* The trees: every file of Slots and ScanSlots is there, as a well-formed
\* metadata file, or is not
ScanTrees ==
    { [dirs |-> [d \in Dirs |-> [mtime |-> 0, readable |-> TRUE]],
       files |-> [s \in Slots \cup ScanSlots |->
                    IF s \in there THEN [present |-> TRUE, mtime |-> 0, doc |-> DocA]
                    ELSE Absent]] :
        there \in SUBSET (Slots \cup ScanSlots) }

ScanInit == UnitInit /\ input \in [fn : {"scanDirectory"}, arg : ScanTrees]

ScanTree ==
    /\ applied = ""
    /\ applied' = input.fn
    /\ output' = scanDirectory(input.arg)
    /\ UNCHANGED <<input, scannerVars>>

ScanNext == ScanTree

SpecScan == ScanInit /\ [][ScanNext]_vars

\* ---- Sorter.less on three records
\* a < b for Go strings: byte by byte
StringLess(x, y) == NameLess(x, y)

\* The values NewSorter leaves in sortBy: the six fields, and one that
\* names none of them
SortFields == {"name", "artist", "year", "length", "genre", "charter", ""}

\* The first charter of a song, "" when it has none
FirstCharter(song) == IF Len(song.Charters) > 0 THEN song.Charters[1] ELSE <<>>

LessByName(a, b) == StringLess(ToLower(a.Name), ToLower(b.Name))

\* Sorter.less
less(sortBy, a, b) ==
    IF sortBy = "name" THEN LessByName(a, b)
    ELSE IF sortBy = "artist"
    THEN IF a.Artist # b.Artist THEN StringLess(ToLower(a.Artist), ToLower(b.Artist))
         ELSE LessByName(a, b)
    ELSE IF sortBy = "year"
    THEN IF a.Year # b.Year THEN a.Year < b.Year ELSE LessByName(a, b)
    ELSE IF sortBy = "length"
    THEN IF a.Length # b.Length THEN a.Length < b.Length ELSE LessByName(a, b)
    ELSE IF sortBy = "genre"
    THEN IF a.Genre # b.Genre THEN StringLess(ToLower(a.Genre), ToLower(b.Genre))
         ELSE LessByName(a, b)
    ELSE IF sortBy = "charter"
    THEN IF FirstCharter(a) # FirstCharter(b)
         THEN StringLess(ToLower(FirstCharter(a)), ToLower(FirstCharter(b)))
         ELSE LessByName(a, b)
    ELSE IF a.Artist # b.Artist THEN StringLess(ToLower(a.Artist), ToLower(b.Artist))
         ELSE LessByName(a, b)

\* The records compared: word is the artist, the genre and the only
\* charter of the record (none when it is empty), number its year and its
\* length in milliseconds
SortWords == { <<>>, <<"a">>, <<"A">> }
SortNames == { <<"x">>, <<"X">>, <<"y">> }

\* Bound: the years are 1..MaxYear
MaxYear == 2

SortSongs ==
    { [NewSong(SlotPath(SlotA)) EXCEPT
          !.Name = n, !.Artist = w, !.Genre = w,
          !.Charters = IF w = <<>> THEN <<>> ELSE <<w>>,
          !.Year = y, !.Length = y * Millisecond] :
        n \in SortNames, w \in SortWords, y \in 1..MaxYear }

SortInit ==
    /\ UnitInit
    /\ input \in [fn : {"less"}, sortBy : SortFields, a : SortSongs, b : SortSongs, c : SortSongs]

\* s.less on every pair of the three records
Compare ==
    /\ applied = ""
    /\ applied' = input.fn
    /\ output' = [aa |-> less(input.sortBy, input.a, input.a),
                  ab |-> less(input.sortBy, input.a, input.b),
                  ba |-> less(input.sortBy, input.b, input.a),
                  bc |-> less(input.sortBy, input.b, input.c),
                  cb |-> less(input.sortBy, input.c, input.b),
                  ac |-> less(input.sortBy, input.a, input.c),
                  ca |-> less(input.sortBy, input.c, input.a)]
    /\ UNCHANGED <<input, scannerVars>>

SortNext == Compare

SpecSort == SortInit /\ [][SortNext]_vars

Next ==
    \/ CalcHash
    \/ LoadCache
    \/ Scan
    \/ SaveCache
    \/ Return
    \/ AddFile
    \/ RemoveFile
    \/ ModifyFile
    \/ RenameFile
    \/ ChmodDir
    \/ DamageCache

Spec == Init /\ [][Next]_vars

\* ------------------------------------------------------------------ properties

\* The catalog a full scan of tree t returns
Catalog(t) == scanDirectory(t).songs

\* C1: LoadSongs answers from the cache file, without a scan, exactly when
\* loadCache succeeded and the stored Hash equals the fingerprint it has just
\* computed; in every other case that reaches the cache (none, unreadable,
\* undecodable, other hash) it goes on to scanDirectory.
C1_CacheIffHashMatch ==
    LET match == ~obs.loaded.err /\ obs.loaded.cache.Hash = currentHash
    IN  /\ obs.via = "cache" =>
              /\ obs.cacheReads = 1
              /\ match
              /\ obs.scans = 0
              /\ songs.parsed = <<>>
              /\ ret.err = "nil"
              /\ Len(ret.songs) = Len(obs.loaded.cache.Songs)
              /\ \A i \in 1..Len(ret.songs) : ret.songs[i].Path = obs.loaded.cache.Songs[i].Path
        /\ obs.cacheReads = 1 /\ match => obs.via = "cache" /\ pc \in {"done", "idle"}
        /\ obs.cacheReads = 1 /\ ~match => pc = "miss" \/ obs.scans = 1
        /\ obs.scans = 1 => obs.cacheReads = 1 /\ ~match

\* A call answered from a cache that holds songs
C1_Witness == pc = "done" /\ obs.via = "cache" /\ Len(ret.songs) > 0

\* C2: after a call that scanned the tree and saved the cache, a second call
\* with no change made since the first began is answered from the cache: no
\* ParseSong, no rewrite of the cache file, and a catalog equal record for
\* record to the first call's.
C2_SecondCallFromCache ==
    (/\ pc = "done"
     /\ prev.returned
     /\ prev.via = "scan"
     /\ prev.save = "ok"
     /\ prev.startClock = clock)
    => /\ obs.via = "cache"
       /\ songs.parsed = <<>>
       /\ obs.cacheWrites = 0
       /\ cacheFile = prev.cacheFile
       /\ ret.songs = prev.ret.songs

\* The part of C2 that the code keeps: the cache path, without a parse or a
\* rewrite, and a catalog of the same paths in the same order.
C2_CachePathTaken ==
    (/\ pc = "done"
     /\ prev.returned
     /\ prev.via = "scan"
     /\ prev.save = "ok"
     /\ prev.startClock = clock)
    => /\ obs.via = "cache"
       /\ songs.parsed = <<>>
       /\ obs.cacheWrites = 0
       /\ cacheFile = prev.cacheFile
       /\ Len(ret.songs) = Len(prev.ret.songs)

\* C3: whatever changes are interleaved with the steps of LoadSongs, a call
\* answered from the cache returns the catalog a full scan of the tree would
\* return, the tree taken as it was when the call fingerprinted it or as it
\* was when the call read the cache.
C3_CacheAnswerIsFullScan ==
    pc = "done" /\ obs.via = "cache"
    => \/ ret.songs = Catalog(obs.treeAtHash)
       \/ ret.songs = Catalog(obs.treeAtLoad)

\* C4: a catalog saved by saveCache under a digest and read back by loadCache
\* and convertCacheToSongs gives that digest and the same records, field for
\* field and in order.
C4_CacheRoundTrip ==
    obs.cacheWrites = 1 /\ obs.save = "ok"
    => LET loaded == loadCache(obs.written)
       IN  /\ ~loaded.err
           /\ loaded.cache.Hash = currentHash
           /\ convertCacheToSongs(loaded.cache) = songs.songs

\* The metadata files the walk of t reaches, in traversal order
SongFiles(t) ==
    LET IsSong(e) == ~e.isDir /\ ~e.err /\ IsSongIni(e.path)
    IN  SelectSeq(Walk(t), IsSong)

Parses(t, e) == ParseSongAt[e.slot][t.files[e.slot].doc].ok

Paths(events) == [i \in DOMAIN events |-> events[i].path]

Range(f) == {f[i] : i \in DOMAIN f}

\* C5: a ParseSong failure does not stop the scan.  When the walk itself
\* meets no error, scanDirectory returns no error, the records of exactly the
\* files ParseSong accepted, in traversal order, and one warning with the
\* path for each file it rejected.
C5_ParseFailureSkipsFile ==
    LET t == obs.treeAtScan
        Good(e) == Parses(t, e)
        Bad(e) == ~Parses(t, e)
        good == SelectSeq(SongFiles(t), Good)
        IsParseWarning(w) == w[1] = "parse"
        logged == SelectSeq(stderr, IsParseWarning)
    IN  obs.scans = 1 /\ ~WalkFailed(Walk(t))
        => /\ ~songs.err
           /\ obs.via # "error"
           /\ songs.parsed = Paths(SongFiles(t))
           /\ songs.songs = [i \in DOMAIN good |->
                               ParseSongAt[good[i].slot][t.files[good[i].slot].doc].song]
           /\ [i \in DOMAIN logged |-> logged[i][2]] = Paths(SelectSeq(SongFiles(t), Bad))

\* A scan that met a rejected file first and went on to parse the next
C5_Witness ==
    /\ pc = "scanned"
    /\ songs.warnings = <<SlotPath(SlotA)>>
    /\ Len(songs.songs) = 1
    /\ songs.songs[1].Path = SlotPath(SlotB)

\* A file that can be read and has no line "[song]", in any letter case:
\* an empty file, a file whose header is never closed, a file of other sections
HasSongSection(doc) ==
    \E i \in 1..Len(doc.lines) :
        IsHeader(TrimSpace(doc.lines[i])) /\ HeaderName(TrimSpace(doc.lines[i])) = SongName

Malformed(doc) == doc.readable /\ ~HasSongSection(doc)

\* C6: a metadata file that is empty or invalid, or has no recognizable
\* [song] section, is a parse failure: the scan leaves it out of the catalog
\* and logs one warning with its path.
C6_MalformedFileIsParseFailure ==
    obs.scans = 1 /\ ~songs.err
    => \A s \in Slots :
          obs.treeAtScan.files[s].present /\ Malformed(obs.treeAtScan.files[s].doc)
          => /\ SlotPath(s) \in Range(songs.warnings)
             /\ \A i \in 1..Len(songs.songs) : songs.songs[i].Path # SlotPath(s)

\* The call has left LoadSongs
Returned == obs.via \in {"cache", "scan", "error"}

SaveWarned == \E i \in 1..Len(stderr) : stderr[i][1] = "save"

\* The cache file saveCache left holds the call's fingerprint and one entry
\* per record of the catalog it returned, in order
WroteCatalog ==
    /\ obs.written.state = "ok"
    /\ obs.written.doc.Hash = currentHash
    /\ Len(obs.written.doc.Songs) = Len(ret.songs)
    /\ \A i \in 1..Len(ret.songs) :
          obs.written.doc.Songs[i].Path = JsonString(ret.songs[i].Path)

\* C7 as stated: a cache file that is missing, unreadable or undecodable is
\* never fatal; LoadSongs scans, returns the scanned catalog without error
\* and overwrites the cache with the new fingerprint and catalog.
C7_LoadErrorScansAndOverwrites ==
    pc = "done" /\ obs.cacheReads = 1 /\ obs.loaded.err
    => /\ obs.scans = 1
       /\ ret.err = "nil"
       /\ ret.songs = Catalog(obs.treeAtScan)
       /\ obs.cacheWrites = 1
       /\ WroteCatalog

\* C7 as amended: such a cache file is treated as not found and is never
\* fatal by itself.  LoadSongs scans; unless the scan's walk fails it returns
\* the scanned catalog without error after one attempt to save, and the
\* cache holds the new fingerprint and catalog when that save succeeds; a
\* failed save is a warning.
C7_LoadErrorFallsBackToScan ==
    obs.cacheReads = 1 /\ obs.loaded.err
    => /\ obs.via # "cache"
       /\ pc = "miss" \/ obs.scans = 1
       /\ Returned /\ songs.err => ret.err = "walk" /\ obs.cacheWrites = 0
       /\ Returned /\ ~songs.err =>
             /\ ret.err = "nil"
             /\ ret.songs = Catalog(obs.treeAtScan)
             /\ obs.cacheWrites = 1
             /\ obs.save = "ok" => WroteCatalog
             /\ obs.save # "ok" => SaveWarned

\* A call that found the cache file undecodable, scanned and replaced it
C7_Witness ==
    /\ pc = "done"
    /\ obs.cacheAtStart.state = "corrupt"
    /\ obs.loaded.err
    /\ obs.save = "ok"
    /\ cacheFile.state = "ok"
    /\ Len(ret.songs) > 0

\* C8: a failed saveCache is a warning only.  LoadSongs returns the whole
\* catalog of the scan and a nil error, as it does when the save succeeds,
\* and the warning is written exactly when the save failed.
C8_SaveFailureIsWarningOnly ==
    obs.cacheWrites = 1
    => /\ Returned
       /\ ret.err = "nil"
       /\ ret.songs = Catalog(obs.treeAtScan)
       /\ SaveWarned <=> obs.save # "ok"

\* A call whose save failed and that returned songs
C8_Witness == pc = "done" /\ obs.save \in {"create", "write"} /\ Len(ret.songs) > 0 /\ SaveWarned

\* C9: when calculateDirHash fails, LoadSongs returns an error and no
\* catalog, having read no cache, scanned and parsed nothing and written no
\* cache file.
C9_HashErrorIsFatal ==
    (\E d \in Dirs : ~obs.treeAtHash.dirs[d].readable)
    => /\ pc \in {"done", "idle"}
       /\ obs.via = "error"
       /\ ret = [songs |-> <<>>, err |-> "hash"]
       /\ obs.cacheReads = 0
       /\ obs.scans = 0
       /\ songs.parsed = <<>>
       /\ obs.cacheWrites = 0

\* A call that failed at the fingerprint although a good cache file was there
C9_Witness == pc = "done" /\ ret.err = "hash" /\ cacheFile.state = "ok" /\ calls = 1

\* The first subdirectory, in walk order, that cannot be read
FirstUnreadable(t) ==
    LET bad == {d \in Dirs : ~t.dirs[d].readable}
    IN  CHOOSE d \in bad : \A e \in bad \ {d} : NameLess(d, e)

\* C10 as stated: a subdirectory the scan's walk cannot read is skipped with
\* a warning; the scan returns no error and the song.ini files of every
\* readable subtree are parsed.
C10_UnreadableSubtreeSkipped ==
    obs.scans = 1 /\ (\E d \in Dirs : ~obs.treeAtScan.dirs[d].readable)
    => /\ ~songs.err
       /\ \A s \in Slots :
             obs.treeAtScan.files[s].present /\ obs.treeAtScan.dirs[s.dir].readable
             => SlotPath(s) \in Range(songs.parsed)

\* C10 as amended: a subdirectory the scan's walk cannot read stops the
\* walk.  scanDirectory returns the error with the records parsed before it;
\* LoadSongs returns that error and no catalog and writes no cache; the
\* files of the subtrees after it are not parsed, and nothing is logged.
C10_UnreadableSubtreeAbortsScan ==
    obs.scans = 1 /\ (\E d \in Dirs : ~obs.treeAtScan.dirs[d].readable)
    => /\ songs.err
       /\ pc \in {"done", "idle"}
       /\ obs.via = "error"
       /\ ret = [songs |-> <<>>, err |-> "walk"]
       /\ obs.cacheWrites = 0
       /\ stderr = [i \in DOMAIN songs.warnings |-> <<"parse", songs.warnings[i]>>]
       /\ \A s \in Slots :
             obs.treeAtScan.files[s].present
             => (SlotPath(s) \in Range(songs.parsed)
                   <=> NameLess(s.dir, FirstUnreadable(obs.treeAtScan)))

\* A scan that had parsed a song when the walk failed, and returned none
C10_Witness ==
    /\ pc = "done"
    /\ ret.err = "walk"
    /\ Len(songs.songs) = 1
    /\ ~obs.treeAtScan.dirs[DirB].readable
    /\ obs.treeAtScan.files[SlotB].present

\* C11: two computations of the fingerprint give the same digest if and only
\* if the two trees hold the same relative paths with the same modification
\* times (the hash taken as injective on the bytes fed to it).
C11_DigestIffSameEntries ==
    applied = "calculateDirHash" =>
        /\ ~output[1].err /\ ~output[2].err
        /\ (output[1].hash = output[2].hash) <=> (Entries(input[1]) = Entries(input[2]))

\* The half of C11 that does hold: an unchanged tree keeps its digest
C11_SameEntriesSameDigest ==
    applied = "calculateDirHash" =>
        (Entries(input[1]) = Entries(input[2]) => output[1].hash = output[2].hash)

\* C12: convertCacheToSongs gives an entry whose Charters list is empty and
\* whose legacy Charter is not the one-element list [Charter]; a Charters
\* list that is not empty is used as it is, the legacy field ignored; and
\* saveCache never writes the legacy Charter field.
C12_LegacyCharterPromoted ==
    /\ applied = "convertCacheToSongs" =>
         /\ Len(output) = Len(input.arg.Songs)
         /\ \A i \in DOMAIN input.arg.Songs :
              LET e == input.arg.Songs[i]
              IN  /\ (Len(e.Charters) = 0 /\ e.Charter # <<>>)
                        => output[i].Charters = <<e.Charter>>
                  /\ Len(e.Charters) > 0 => output[i].Charters = e.Charters
    /\ applied = "saveCache" =>
         /\ output.file.state = "ok"
         /\ \A i \in DOMAIN input.arg :
              /\ "charter" \notin JsonKeys(output.entries[i])
              /\ output.file.doc.Songs[i].Charter = <<>>
              /\ output.file.doc.Songs[i].Charters = input.arg[i].Charters

C12_Witness ==
    /\ applied = "convertCacheToSongs"
    /\ Len(input.arg.Songs) = 2
    /\ input.arg.Songs[1].Charters = <<>> /\ input.arg.Songs[1].Charter = <<"O","l","d">>
    /\ Len(input.arg.Songs[2].Charters) = 2 /\ input.arg.Songs[2].Charter = <<"O","l","d">>
    /\ output[2].Charters = input.arg.Songs[2].Charters
    /\ output[1].Charters = << <<"O","l","d">> >>

\* What C13 asks of one record for one diff_<instrument> value
DifficultyKept(song, inst, given) ==
    IF given.ok /\ given.val > 0
    THEN inst \in DOMAIN song.Instruments /\ song.Instruments[inst] = given.val
    ELSE inst \notin DOMAIN song.Instruments

\* C13: no record ParseSong returns, and no record a cache written by
\* saveCache gives back, maps an instrument to a difficulty <= 0: a value
\* that is zero, negative or no number leaves the instrument absent, and a
\* positive value N maps the instrument to N.
C13_OnlyPositiveDifficulties ==
    applied = "ParseSong" =>
        /\ output.parse.ok
        /\ Len(output.cached) = 1
        /\ \A song \in {output.parse.song, output.cached[1]} :
             /\ \A inst \in DOMAIN song.Instruments : song.Instruments[inst] > 0
             /\ DifficultyKept(song, Drums, input.drums)
             /\ DifficultyKept(song, Bass, input.bass)

C13_Witness ==
    /\ applied = "ParseSong"
    /\ input.drums.val = 3 /\ input.bass.val = 0 /\ input.bass.ok
    /\ DOMAIN output.parse.song.Instruments = {Drums}
    /\ output.cached[1].Instruments[Drums] = 3

\* The character entities an ampersand can begin
Entities ==
    { <<"&","a","m","p",";">>, <<"&","l","t",";">>, <<"&","g","t",";">>,
      <<"&","q","u","o","t",";">>, <<"&","#">> }

BeginsEntity(s, i) == \E e \in Entities : HasPrefix(SubSeq(s, i, Len(s)), e)

\* Position i lies inside a <...> span: after a "<" and before the ">"
\* that closes it
InSpan(s, i) ==
    \E j \in 1..(i - 1), k \in (i + 1)..Len(s) :
        s[j] = "<" /\ s[k] = ">" /\ \A m \in (j + 1)..(i - 1) : s[m] # ">"

\* Position i follows a "<" that no ">" has closed yet, whether or not one
\* closes it later
InOpenTag(s, i) ==
    \E j \in 1..(i - 1) : s[j] = "<" /\ \A m \in (j + 1)..(i - 1) : s[m] # ">"

\* The separators of s: its commas and ampersands that are not inside (as
\* the operator Inside has it) and begin no entity
Separators(s, Inside(_, _)) ==
    {i \in 1..Len(s) : /\ s[i] \in {",", "&"}
                       /\ ~Inside(s, i)
                       /\ ~(s[i] = "&" /\ BeginsEntity(s, i))}

\* s cut at the positions of points, from position from on
RECURSIVE Cut(_, _, _)
Cut(s, points, from) ==
    IF \E p \in points : p >= from
    THEN LET p == Min({q \in points : q >= from})
         IN  <<SubSeq(s, from, p - 1)>> \o Cut(s, points, p + 1)
    ELSE <<SubSeq(s, from, Len(s))>>

\* The pieces between the points, trimmed, the empty ones dropped, in order
PartsAt(s, points) ==
    LET pieces == Cut(s, points, 1)
        NotEmpty(x) == x # <<>>
    IN  SelectSeq([i \in DOMAIN pieces |-> TrimSpace(pieces[i])], NotEmpty)

\* C14: splitCharters and the callers' trimming split a charter string at
\* exactly the commas and ampersands that lie outside every <...> span and
\* begin no entity, and keep the order of the parts.
C14_SplitsOutsideMarkup ==
    applied = "splitCharters" => output = PartsAt(input.arg, Separators(input.arg, InSpan))

\* What does hold: the splits are at the separators that follow no unclosed
\* "<", and the two examples of the documentation come out as given
C14_SplitsOutsideOpenTag ==
    applied = "splitCharters" =>
        /\ output = PartsAt(input.arg, Separators(input.arg, InOpenTag))
        /\ input.arg = AliceAndBob => output = << <<"A","l","i","c","e">>, <<"B","o","b">> >>
        /\ input.arg = TomAndJerry =>
             output = << <<"T","o","m">>,
                         <<"J","e","r","r","y"," ","&","a","m","p",";"," ","C","o">> >>

\* The fields C15 is about
SectionFields(song) ==
    <<song.Name, song.Artist, song.Album, song.Genre, song.Year, song.Length,
      song.PreviewStart, song.AlbumTrack, song.PlaylistTrack, song.Instruments>>

\* C15: for a file whose section header is the word song in any letter
\* case, ParseSong extracts the same name, artist, album, genre, numeric
\* fields and instruments as for the same file with the header [song].
C15_SectionCaseInsensitive ==
    applied = "ParseSong" =>
        /\ output.given.ok = output.lower.ok
        /\ SectionFields(output.given.song) = SectionFields(output.lower.song)

\* What does hold: the second pass takes the header in any letter case,
\* and the first takes [song] as written
C15_ManualPassIgnoresCase ==
    applied = "ParseSong" /\ (input.stray \/ input.spelling = SongName) =>
        /\ output.given = output.lower
        /\ output.given.ok
        /\ output.given.song.Name = input.name
        /\ output.given.song.Year = 1999

\* The files of tree t
FilesOf(t) == {s \in DOMAIN t.files : t.files[s].present}

\* C16: a full scan gives ParseSong exactly the entries whose file name is
\* song.ini in any letter case, and no other entry: a file whose name only
\* ends in those characters is not parsed.
C16_ParsesExactlySongIni ==
    applied = "scanDirectory" =>
        Range(output.parsed) =
            {SlotPath(s) : s \in {f \in FilesOf(input.arg) :
                                     ToLower(f.name) = <<"s","o","n","g",".","i","n","i">>}}

\* What does hold: every file named song.ini in any letter case is parsed,
\* once, and no file is whose name does not end in those characters
C16_ParsesEverySongIni ==
    applied = "scanDirectory" =>
        /\ \A s \in FilesOf(input.arg) :
             /\ ToLower(s.name) = <<"s","o","n","g",".","i","n","i">>
                   => Cardinality({i \in DOMAIN output.parsed :
                                      output.parsed[i] = SlotPath(s)}) = 1
             /\ ~HasSuffix(ToLower(s.name), <<"s","o","n","g",".","i","n","i">>)
                   => SlotPath(s) \notin Range(output.parsed)

\* C17: when LoadSongs returns through the scan and the save succeeded, the
\* cache file the save left holds as Hash the fingerprint computed at the
\* start of that call and as Songs one entry per record of the returned
\* catalog, in the same order; when it returns through the cache or with an
\* error it has written nothing, and the cache file is what it was before
\* the call unless another program changed it.
C17_CacheMatchesCatalog ==
    pc = "done" =>
        /\ (obs.via = "scan" /\ obs.save = "ok") =>
             /\ ret.err = "nil"
             /\ obs.cacheWrites = 1
             /\ obs.written.state = "ok"
             /\ obs.written.doc.Hash = currentHash
             /\ currentHash = calculateDirHash(obs.treeAtHash).hash
             /\ Len(obs.written.doc.Songs) = Len(ret.songs)
             /\ \A i \in DOMAIN ret.songs :
                  /\ obs.written.doc.Songs[i].Path = ret.songs[i].Path
                  /\ obs.written.doc.Songs[i].Instruments = ret.songs[i].Instruments
                  /\ obs.written.doc.Songs[i].Length * Millisecond = ret.songs[i].Length
             /\ clock = obs.startClock => cacheFile = obs.written
        /\ obs.via \in {"cache", "error"} =>
             /\ obs.cacheWrites = 0
             /\ clock = obs.startClock => cacheFile = obs.cacheAtStart

C17_Witness ==
    /\ pc = "done"
    /\ obs.via = "scan" /\ obs.save = "ok"
    /\ calls = 1
    /\ obs.cacheAtStart.state = "ok"
    /\ obs.cacheAtStart # cacheFile
    /\ Len(ret.songs) = 2
    /\ cacheFile.doc.Songs[2].Path = SlotPath(SlotB)

\* less is irreflexive and transitive on the three records
StrictOrder == ~output.aa /\ (output.ab /\ output.bc => output.ac)

\* "neither a < b nor b < a" is transitive on the three records
TiesTransitive ==
    (~output.ab /\ ~output.ba /\ ~output.bc /\ ~output.cb) => (~output.ac /\ ~output.ca)

\* C18: for every sort field Sorter.less is a strict weak ordering over
\* Song records: irreflexive, transitive, and with "neither a<b nor b<a"
\* transitive, also for records whose artist, genre or first charter differ
\* only in letter case.
C18_StrictWeakOrdering == applied = "less" => StrictOrder /\ TiesTransitive

\* What does hold: less is a strict partial order for every sort field,
\* and a strict weak ordering for name, year and length
C18_StrictPartialOrder ==
    applied = "less" =>
        /\ StrictOrder
        /\ input.sortBy \in {"name", "year", "length"} => TiesTransitive

====
